---- MODULE Spec2Model ----
(***************************************************************************)
(* Model of reconftw_ai.py: ingestion of the per-category result files,   *)
(* per-category analysis through the generation service, the overview     *)
(* synthesis and the report writer.                                        *)
(*                                                                         *)
(* Text is a sequence of tokens; a token is a triple of strings            *)
(* <<kind, a, b>>.  The marker "[Error]" is a token of its own so that the *)
(* substring test `"[Error]" in data` is a membership test on the tokens.  *)
(* A Python dict is a sequence of <<key, value>> pairs in insertion order. *)
(***************************************************************************)
EXTENDS Integers, Sequences, FiniteSets, TLC

VARIABLES
    promptsFile,    \* what open()/json.load find at --prompts-file
    apiKey,         \* whether GOOGLE_API_KEY is set
    dirs,           \* per category: the directory and what glob yields in it
    pc,             \* position of the main thread
    exitStatus,     \* status of sys.exit, 0 while running
    base_prompts,   \* the loaded prompt catalog
    readTask,       \* phase-1 futures: "idle", "pending", "done", "recorded"
    raw_data_per_category,  \* dict, insertion ordered
    analyzeTask,    \* phase-2 futures: "idle", "pending", "calling", "done", "recorded"
    taskData,       \* data argument bound to each phase-2 task at submit
    future,         \* outcome stored in each finished phase-2 future
    results,        \* dict, insertion ordered
    all_data,       \* data argument of the overview call
    calls,          \* per section: number of generate_content calls issued
    prompts,        \* per section: the prompt of the last call issued
    served,         \* per section: how the last call ended, "" before
    runs,           \* per section: number of process_category invocations
    output_file,    \* what save_results wrote
    clock,          \* wall-clock time, in ticks of 1/TicksPerSecond second
    disk,           \* the files of the output directory: dict path -> body
    saves,          \* per save_results call so far: what it wrote and where
    fnIn,           \* input of the function under study (function specifications)
    fnOut,          \* its output
    fnLog           \* its outputs, call after call on the same input

vars == <<promptsFile, apiKey, dirs, pc, exitStatus, base_prompts, readTask,
          raw_data_per_category, analyzeTask, taskData, future, results,
          all_data, calls, prompts, served, runs, output_file, clock, disk, saves,
          fnIn, fnOut, fnLog>>

----------------------------------------------------------------------------
(* Program constants *)

CATEGORIES == <<"osint", "subdomains", "hosts", "webs">>

OUTPUT_FORMATS == {"txt", "md"}

REPORT_TYPES == {"executive", "brief", "bughunter"}

DEFAULT_REPORT_TYPE == "executive"

CategorySet == {CATEGORIES[i] : i \in 1..Len(CATEGORIES)}

Sections == CategorySet \cup {"overview"}

----------------------------------------------------------------------------
(* Bounds *)

MaxFiles == 2

\* ticks of the clock in a second
TicksPerSecond == 2

\* the clock stops here
MaxClock == 3

\* save_results calls on one output directory
MaxSaves == 2

\* calls of read_files on one directory
MaxReads == 2

----------------------------------------------------------------------------
(* Tokens *)

ERR == <<"lit", "[Error]", "">>

INFO == <<"lit", "[Info]", "">>

NL == <<"ws", "\n", "">>

SP == <<"ws", " ", "">>

Txt(s) == <<"lit", s, "">>

\* "--- <category>/<name> ---"
Hdr(c, n) == <<"hdr", c, n>>

\* " Failed to read <category>/<name>: <str(e)>"
FailedToRead(c, n) == <<"failed", c, n>>

\* " Directory <results_dir>/<category> does not exist."
DoesNotExist(c) == <<"does not exist", c, "">>

\* " No files found in <results_dir>/<category>."
NoFilesFound(c) == <<"no files found", c, "">>

\* " No valid data available for <category>."
NoValidData(c) == <<"no valid data", c, "">>

\* " Failed to process <category> with Gemini: <str(e)>"
FailedToProcess(c, reason) == <<"failed to process", c, reason>>

\* category.upper()
Upper(c) == <<"upper", c, "">>

\* the placeholder {name} of a template, and a brace that opens no placeholder
Slot(name) == <<"slot", name, "">>

BRACE == <<"brace", "{", "">>

IsSpace(t) == t[1] = "ws"

Contains(s, t) == \E i \in 1..Len(s) : s[i] = t

Count(s, t) == Cardinality({i \in 1..Len(s) : s[i] = t})

\* str.strip(): drop the leading and the trailing whitespace
Strip(s) ==
    LET idx == {i \in 1..Len(s) : ~IsSpace(s[i])}
    IN  IF idx = {} THEN <<>>
        ELSE LET lo == CHOOSE i \in idx : \A j \in idx : i <= j
                 hi == CHOOSE i \in idx : \A j \in idx : j <= i
             IN  SubSeq(s, lo, hi)

----------------------------------------------------------------------------
(* Values a call produces: a string, None, or a raised exception *)

Text(v) == [kind |-> "text", val |-> v]

NoneValue == [kind |-> "none", val |-> <<>>]

Raised(e) == [kind |-> "raise", val |-> <<Txt(e)>>]

----------------------------------------------------------------------------
(* read_files *)

\* one entry of glob's result
Entry(n, k, r, c) == [name |-> n, kind |-> k, readable |-> r, content |-> c]

Dir(e, l) == [exists |-> e, listing |-> l]

\* the unreadable file is skipped without a trace
FileBlockSkipUnreadable(c, e) ==
    IF e.kind # "file" THEN <<>>
    ELSE IF e.readable THEN <<Hdr(c, e.name), NL>> \o Strip(e.content) \o <<NL>>
    ELSE <<>>

\* body of the loop over file_paths: what one path adds to combined_data
FileBlock(c, e) ==
    IF e.kind # "file" THEN <<>>
    ELSE IF e.readable THEN <<Hdr(c, e.name), NL>> \o Strip(e.content) \o <<NL>>
    ELSE <<ERR, FailedToRead(c, e.name), NL>>

RECURSIVE combined_data(_, _)
combined_data(c, listing) ==
    IF listing = <<>> THEN <<>>
    ELSE FileBlock(c, Head(listing)) \o combined_data(c, Tail(listing))

\* read_files without the test for an empty accumulator
read_filesNoInfo(c, d) ==
    IF ~d.exists THEN Text(<<ERR, DoesNotExist(c)>>)
    ELSE Text(Strip(combined_data(c, d.listing)))

read_files(c, d) ==
    IF ~d.exists THEN Text(<<ERR, DoesNotExist(c)>>)
    ELSE IF combined_data(c, d.listing) = <<>> THEN Text(<<INFO, NoFilesFound(c)>>)
    ELSE Text(Strip(combined_data(c, d.listing)))

----------------------------------------------------------------------------
(* The prompt catalog *)

\* json.load gives any JSON value: `shape` is the type of the top-level value,
\* `variant` what base_prompts.get(report_type, {}) finds ("absent", "dict" or
\* a value that is no dict), and `entries` what the variant's dict holds for a
\* section: absent, a string (its template), or a value that is no string.
CatalogEntry(p, s, t) == [present |-> p, isstr |-> s, tmpl |-> t]

AbsentEntry == CatalogEntry(FALSE, TRUE, <<>>)

Catalog(sh, v, e) == [shape |-> sh, variant |-> v, entries |-> e]

\* "Analyze this reconnaissance data and highlight high-risk findings:\n{data}"
DefaultTemplate == <<Txt("Analyze this reconnaissance data"), NL, Slot("data")>>

\* base_prompts.get(report_type, {}).get(category, <default>)
prompt_template(bp, category) ==
    IF bp.shape # "dict" THEN Raised("AttributeError")
    ELSE IF bp.variant = "absent" THEN Text(DefaultTemplate)
    ELSE IF bp.variant # "dict" THEN Raised("AttributeError")
    ELSE IF ~bp.entries[category].present THEN Text(DefaultTemplate)
    ELSE IF ~bp.entries[category].isstr THEN Raised("AttributeError")
    ELSE Text(bp.entries[category].tmpl)

RECURSIVE Substitute(_, _)
Substitute(tmpl, data) ==
    IF tmpl = <<>> THEN <<>>
    ELSE IF Head(tmpl) = Slot("data") THEN data \o Substitute(Tail(tmpl), data)
    ELSE <<Head(tmpl)>> \o Substitute(Tail(tmpl), data)

\* prompt_template.format(data=data)
format(tmpl, data) ==
    IF Contains(tmpl, BRACE) THEN Raised("ValueError")
    ELSE IF \E i \in 1..Len(tmpl) : tmpl[i][1] = "slot" /\ tmpl[i] # Slot("data")
         THEN Raised("KeyError")
    ELSE Text(Substitute(tmpl, data))

----------------------------------------------------------------------------
(* process_category *)

\* a test that only rejects the empty data
ShortCircuitEmptyOnly(data) == data = <<>>

\* not data or "[Error]" in data
ShortCircuit(data) == data = <<>> \/ Contains(data, ERR)

\* process_category up to the service call: the value it returns or raises
\* there (step "return"), or the prompt it sends (step "call")
BeforeCall(bp, category, data) ==
    IF ShortCircuit(data)
    THEN [step |-> "return", res |-> Text(<<ERR, NoValidData(category)>>)]
    ELSE LET t == prompt_template(bp, category)
         IN  IF t.kind = "raise" THEN [step |-> "return", res |-> t]
             ELSE LET p == format(t.val, data)
                  IN  IF p.kind = "raise" THEN [step |-> "return", res |-> p]
                      ELSE [step |-> "call", res |-> p]

\* what generate_content does: answers with text, answers with a response
\* whose .text is None, or raises
ServiceOutcomes == {"text", "none", "raise"}

\* the text of a response
ResponseText == <<Txt("analysis")>>

\* process_category from the return of the service call on
AfterCall(category, outcome) ==
    IF outcome = "text" THEN Text(ResponseText)
    ELSE IF outcome = "none" THEN NoneValue
    ELSE Text(<<ERR, FailedToProcess(category, "service failure")>>)

----------------------------------------------------------------------------
(* Python dicts *)

Keys(d) == [i \in 1..Len(d) |-> d[i][1]]

HasKey(d, k) == \E i \in 1..Len(d) : d[i][1] = k

\* d[k]; the lookups of the program are all of keys that are present
Get(d, k) == d[CHOOSE i \in 1..Len(d) : d[i][1] = k][2]

\* the assignment lands on the first entry of the dict
PutOverFirst(d, k, v) ==
    IF d = <<>> THEN <<<<k, v>>>> ELSE [d EXCEPT ![1] = <<k, v>>]

\* d[k] = v: a new key goes to the end, a present key keeps its place
Put(d, k, v) ==
    IF HasKey(d, k) THEN [i \in 1..Len(d) |-> IF d[i][1] = k THEN <<k, v>> ELSE d[i]]
    ELSE Append(d, <<k, v>>)

----------------------------------------------------------------------------
(* Inputs of a run *)

ReadableFile(n) == Entry(n, "file", TRUE, <<Txt("sub.example.com"), NL>>)

UnreadableFile(n) == Entry(n, "file", FALSE, <<>>)

AbsentDir == Dir(FALSE, <<>>)

\* subdomains/a.txt holds sub.example.com, the other directories are absent
EndToEndDirs ==
    [c \in CategorySet |->
        IF c = "subdomains" THEN Dir(TRUE, <<ReadableFile("a.txt")>>) ELSE AbsentDir]

AllAbsentDirs == [c \in CategorySet |-> AbsentDir]

AllReadableDirs == [c \in CategorySet |-> Dir(TRUE, <<ReadableFile("a.txt")>>)]

\* a readable file, a readable and an unreadable file, a directory without
\* files, an absent directory
MixedDirs ==
    [c \in CategorySet |->
        IF c = "osint" THEN Dir(TRUE, <<ReadableFile("a.txt")>>)
        ELSE IF c = "subdomains" THEN Dir(TRUE, <<ReadableFile("a.txt"), UnreadableFile("b.bin")>>)
        ELSE IF c = "hosts" THEN Dir(TRUE, <<Entry("sub", "dir", TRUE, <<>>)>>)
        ELSE AbsentDir]

\* two categories with data for the service, two without
TwoReadableDirs ==
    [c \in CategorySet |->
        IF c \in {"osint", "subdomains"} THEN Dir(TRUE, <<ReadableFile("a.txt")>>)
        ELSE AbsentDir]

NoEntries == [s \in Sections |-> AbsentEntry]

\* a template for every section
FullCatalog ==
    Catalog("dict", "dict",
            [s \in Sections |-> CatalogEntry(TRUE, TRUE, <<Txt("Summarise"), Slot("data")>>)])

\* the catalogs a run is started on: {}, a template for every section, a
\* template with a second placeholder, and a JSON list
PipelineCatalogs ==
    { Catalog("dict", "absent", NoEntries),
      FullCatalog,
      Catalog("dict", "dict",
              [s \in Sections |->
                  IF s = "subdomains"
                  THEN CatalogEntry(TRUE, TRUE, <<Txt("List"), Slot("hosts"), Slot("data")>>)
                  ELSE AbsentEntry]),
      Catalog("list", "absent", NoEntries) }

PromptsFile(f, j, v) == [found |-> f, json |-> j, value |-> v]

PromptsFiles ==
    { PromptsFile(FALSE, FALSE, Catalog("dict", "absent", NoEntries)),
      PromptsFile(TRUE, FALSE, Catalog("dict", "absent", NoEntries)) }
    \cup { PromptsFile(TRUE, TRUE, c) : c \in PipelineCatalogs }

NoFuture == [kind |-> "unset", val |-> <<>>]

NoFile == [written |-> FALSE, format |-> "txt", body |-> <<>>]

Idle ==
    /\ pc = "load"
    /\ exitStatus = 0
    /\ base_prompts = Catalog("dict", "absent", NoEntries)
    /\ readTask = [c \in CategorySet |-> "idle"]
    /\ raw_data_per_category = <<>>
    /\ analyzeTask = [c \in CategorySet |-> "idle"]
    /\ taskData = [c \in CategorySet |-> <<>>]
    /\ future = [c \in CategorySet |-> NoFuture]
    /\ results = <<>>
    /\ all_data = <<>>
    /\ calls = [s \in Sections |-> 0]
    /\ prompts = [s \in Sections |-> <<>>]
    /\ served = [s \in Sections |-> ""]
    /\ runs = [s \in Sections |-> 0]
    /\ output_file = NoFile
    /\ clock = 0
    /\ disk = <<>>
    /\ saves = <<>>

Run(d, f, k) == [dirs |-> d, promptsFile |-> f, apiKey |-> k]

\* the runs: every prompts file and credential on the directories with a
\* category in error, and the runs on two and on four readable categories
Runs ==
    { Run(d, f, k) : d \in {EndToEndDirs, AllAbsentDirs, MixedDirs},
                     f \in PromptsFiles, k \in BOOLEAN }
    \cup { Run(d, PromptsFile(TRUE, TRUE, FullCatalog), TRUE) :
              d \in {TwoReadableDirs, AllReadableDirs} }

Init ==
    /\ \E r \in Runs : /\ dirs = r.dirs
                       /\ promptsFile = r.promptsFile
                       /\ apiKey = r.apiKey
    /\ Idle
    /\ fnIn = Dir(FALSE, <<>>)
    /\ fnOut = NoFuture
    /\ fnLog = <<>>

inputs == <<promptsFile, apiKey, dirs, clock, fnIn, fnOut, fnLog>>

outdir == <<disk, saves>>

----------------------------------------------------------------------------
(* main: initialization *)

load_prompts ==
    /\ pc = "load"
    /\ IF promptsFile.found /\ promptsFile.json
       THEN /\ base_prompts' = promptsFile.value
            /\ pc' = "client"
            /\ UNCHANGED exitStatus
       ELSE /\ pc' = "exited"
            /\ exitStatus' = 1
            /\ UNCHANGED base_prompts
    /\ UNCHANGED <<inputs, outdir, readTask, raw_data_per_category, analyzeTask, taskData,
                   future, results, all_data, calls, prompts, served, runs, output_file>>

\* the client is built without looking at the key
get_gemini_clientUnchecked ==
    /\ pc = "client"
    /\ pc' = "submit_reads"
    /\ UNCHANGED <<inputs, outdir, exitStatus, base_prompts, readTask, raw_data_per_category,
                   analyzeTask, taskData, future, results, all_data, calls, prompts,
                   served, runs, output_file>>

get_gemini_client ==
    /\ pc = "client"
    /\ IF apiKey
       THEN /\ pc' = "submit_reads"
            /\ UNCHANGED exitStatus
       ELSE /\ pc' = "exited"
            /\ exitStatus' = 1
    /\ UNCHANGED <<inputs, outdir, base_prompts, readTask, raw_data_per_category, analyzeTask,
                   taskData, future, results, all_data, calls, prompts, served, runs, output_file>>

----------------------------------------------------------------------------
(* analyze_reconftw_results, step 1: read all files in parallel *)

\* executor.submit(read_files, cat, results_dir) for cat in CATEGORIES
SubmitReads ==
    /\ pc = "submit_reads"
    /\ readTask' = [c \in CategorySet |-> "pending"]
    /\ pc' = "ingest"
    /\ UNCHANGED <<inputs, outdir, exitStatus, base_prompts, raw_data_per_category, analyzeTask,
                   taskData, future, results, all_data, calls, prompts, served, runs, output_file>>

\* a worker runs read_files to its end
RunRead(c) ==
    /\ readTask[c] = "pending"
    /\ readTask' = [readTask EXCEPT ![c] = "done"]
    /\ UNCHANGED <<inputs, outdir, pc, exitStatus, base_prompts, raw_data_per_category,
                   analyzeTask, taskData, future, results, all_data, calls, prompts, served, runs,
                   output_file>>

\* the handed-over future is taken for that of the last category submitted
CollectReadLastSubmitted(c) ==
    /\ pc = "ingest"
    /\ readTask[c] = "done"
    /\ readTask' = [readTask EXCEPT ![c] = "recorded"]
    /\ LET last == CATEGORIES[Len(CATEGORIES)]
       IN  raw_data_per_category' =
              Put(raw_data_per_category, c, read_files(last, dirs[last]).val)
    /\ UNCHANGED <<inputs, outdir, pc, exitStatus, base_prompts, analyzeTask, taskData, future,
                   results, all_data, calls, prompts, served, runs, output_file>>

\* as_completed hands a finished future to the main thread:
\* raw_data_per_category[futures[future]] = future.result()
CollectRead(c) ==
    /\ pc = "ingest"
    /\ readTask[c] = "done"
    /\ readTask' = [readTask EXCEPT ![c] = "recorded"]
    /\ IF read_files(c, dirs[c]).kind = "raise"
       THEN /\ pc' = "unwind"
            /\ UNCHANGED raw_data_per_category
       ELSE /\ raw_data_per_category' =
                   Put(raw_data_per_category, c, read_files(c, dirs[c]).val)
            /\ UNCHANGED pc
    /\ UNCHANGED <<inputs, outdir, exitStatus, base_prompts, analyzeTask, taskData, future,
                   results, all_data, calls, prompts, served, runs, output_file>>

\* the loop over as_completed leaves while a future is still outstanding
Phase1JoinedEarly == \E c \in CategorySet : readTask[c] = "recorded"

\* the loop over as_completed(futures) has handed over every future
Phase1Joined == \A c \in CategorySet : readTask[c] = "recorded"

----------------------------------------------------------------------------
(* step 2: process the categories *)

\* index in CATEGORIES of the first category without raw data, Len + 1 if none
FirstMissing ==
    LET missing == {i \in 1..Len(CATEGORIES) : ~HasKey(raw_data_per_category, CATEGORIES[i])}
    IN  IF missing = {} THEN Len(CATEGORIES) + 1
        ELSE CHOOSE i \in missing : \A j \in missing : i <= j

\* the dict comprehension submits process_category(client, cat,
\* raw_data_per_category[cat], ...) category by category; a missing key raises
\* KeyError after the tasks before it were submitted
SubmitAnalyze ==
    /\ pc = "ingest"
    /\ Phase1Joined
    /\ LET submitted == {CATEGORIES[i] : i \in 1..(FirstMissing - 1)}
       IN  /\ analyzeTask' = [c \in CategorySet |->
                                 IF c \in submitted THEN "pending" ELSE "idle"]
           /\ taskData' = [c \in CategorySet |->
                                 IF c \in submitted THEN Get(raw_data_per_category, c)
                                 ELSE <<>>]
    /\ pc' = IF FirstMissing > Len(CATEGORIES) THEN "analyze" ELSE "unwind"
    /\ UNCHANGED <<inputs, outdir, exitStatus, base_prompts, readTask, raw_data_per_category,
                   future, results, all_data, calls, prompts, served, runs, output_file>>

\* a worker runs process_category up to the generate_content call
StartAnalyze(c) ==
    /\ analyzeTask[c] = "pending"
    /\ runs' = [runs EXCEPT ![c] = @ + 1]
    /\ LET b == BeforeCall(base_prompts, c, taskData[c])
       IN  IF b.step = "return"
           THEN /\ future' = [future EXCEPT ![c] = b.res]
                /\ analyzeTask' = [analyzeTask EXCEPT ![c] = "done"]
                /\ UNCHANGED <<calls, prompts>>
           ELSE /\ calls' = [calls EXCEPT ![c] = @ + 1]
                /\ prompts' = [prompts EXCEPT ![c] = b.res.val]
                /\ analyzeTask' = [analyzeTask EXCEPT ![c] = "calling"]
                /\ UNCHANGED future
    /\ UNCHANGED <<inputs, outdir, pc, exitStatus, base_prompts, readTask, raw_data_per_category,
                   taskData, results, all_data, served, output_file>>

\* generate_content returns or raises, and process_category ends
ServiceReturn(c) ==
    /\ analyzeTask[c] = "calling"
    /\ \E o \in ServiceOutcomes : /\ future' = [future EXCEPT ![c] = AfterCall(c, o)]
                                  /\ served' = [served EXCEPT ![c] = o]
    /\ analyzeTask' = [analyzeTask EXCEPT ![c] = "done"]
    /\ UNCHANGED <<inputs, outdir, pc, exitStatus, base_prompts, readTask, raw_data_per_category,
                   taskData, results, all_data, calls, prompts, runs, output_file>>

\* client.models.generate_content(...) blocks for ever: the worker stays in the call
ServiceHang(c) ==
    /\ analyzeTask[c] = "calling"
    /\ \A d \in CategorySet : analyzeTask[d] # "hung"
    /\ analyzeTask' = [analyzeTask EXCEPT ![c] = "hung"]
    /\ served' = [served EXCEPT ![c] = "hang"]
    /\ UNCHANGED <<inputs, outdir, pc, exitStatus, base_prompts, readTask, raw_data_per_category,
                   taskData, future, results, all_data, calls, prompts, runs, output_file>>

\* results[futures[future]] = future.result(), which raises what the task raised
CollectAnalyze(c) ==
    /\ pc = "analyze"
    /\ analyzeTask[c] = "done"
    /\ IF future[c].kind = "raise"
       THEN /\ pc' = "unwind"
            /\ UNCHANGED <<results, analyzeTask>>
       ELSE /\ results' = Put(results, c, future[c])
            /\ analyzeTask' = [analyzeTask EXCEPT ![c] = "recorded"]
            /\ UNCHANGED pc
    /\ UNCHANGED <<inputs, outdir, exitStatus, base_prompts, readTask, raw_data_per_category,
                   taskData, future, all_data, calls, prompts, served, runs, output_file>>

\* an exception leaves the `with ThreadPoolExecutor()` block: shutdown(wait=True)
\* lets every submitted task end, then the exception leaves the function
Unwind ==
    /\ pc = "unwind"
    /\ \A c \in CategorySet : /\ readTask[c] # "pending"
                              /\ analyzeTask[c] \notin {"pending", "calling", "hung"}
    /\ pc' = "raised"
    /\ UNCHANGED <<inputs, outdir, exitStatus, base_prompts, readTask, raw_data_per_category,
                   analyzeTask, taskData, future, results, all_data, calls, prompts, served, runs,
                   output_file>>

\* the loop over the phase-2 futures leaves while a future is still outstanding
Phase2JoinedEarly == \E c \in CategorySet : analyzeTask[c] = "recorded"

\* the loop over as_completed(futures) has handed over every future
Phase2Joined == \A c \in CategorySet : analyzeTask[c] = "recorded"

----------------------------------------------------------------------------
(* step 3: global overview *)

\* f"{k.upper()}:\n{v}"
Labeled(k, v) == <<Upper(k), Txt(":"), NL>> \o v

RECURSIVE Join(_, _)
\* sep.join(parts)
Join(sep, parts) ==
    IF parts = <<>> THEN <<>>
    ELSE IF Len(parts) = 1 THEN parts[1]
    ELSE parts[1] \o sep \o Join(sep, Tail(parts))

\* the overview input built from the analysis results
AllDataFromResults(d) ==
    Join(<<NL, NL>>, [i \in 1..Len(d) |-> Labeled(d[i][1], Get(results, d[i][1]).val)])

\* "\n\n".join([f"{k.upper()}:\n{v}" for k, v in raw_data_per_category.items()])
AllData(d) == Join(<<NL, NL>>, [i \in 1..Len(d) |-> Labeled(d[i][1], d[i][2])])

\* results["overview"] = process_category(client, "overview", all_data, ...),
\* up to its generate_content call
StartOverview ==
    /\ pc = "analyze"
    /\ Phase2Joined
    /\ all_data' = AllData(raw_data_per_category)
    /\ runs' = [runs EXCEPT !["overview"] = @ + 1]
    /\ LET b == BeforeCall(base_prompts, "overview", AllData(raw_data_per_category))
       IN  IF b.step = "return"
           THEN /\ IF b.res.kind = "raise"
                   THEN /\ pc' = "raised"
                        /\ UNCHANGED results
                   ELSE /\ pc' = "done"
                        /\ results' = Put(results, "overview", b.res)
                /\ UNCHANGED <<calls, prompts>>
           ELSE /\ calls' = [calls EXCEPT !["overview"] = @ + 1]
                /\ prompts' = [prompts EXCEPT !["overview"] = b.res.val]
                /\ pc' = "synth"
                /\ UNCHANGED results
    /\ UNCHANGED <<inputs, outdir, exitStatus, base_prompts, readTask, raw_data_per_category,
                   analyzeTask, taskData, future, served, output_file>>

\* generate_content returns or raises; process_category and the function return
OverviewReturn ==
    /\ pc = "synth"
    /\ \E o \in ServiceOutcomes :
          /\ results' = Put(results, "overview", AfterCall("overview", o))
          /\ served' = [served EXCEPT !["overview"] = o]
    /\ pc' = "done"
    /\ UNCHANGED <<inputs, outdir, exitStatus, base_prompts, readTask, raw_data_per_category,
                   analyzeTask, taskData, future, all_data, calls, prompts, runs,
                   output_file>>

----------------------------------------------------------------------------
(* save_results *)

\* f"{interpretation}"
Str(v) == IF v.kind = "none" THEN <<Txt("None")>> ELSE v.val

\* f"## {category.upper()}\n\n{interpretation}\n\n" and
\* f"=== {category.upper()} ===\n{interpretation}\n\n"
Section(fmt, k, v) ==
    IF fmt = "md" THEN <<Txt("## "), Upper(k), NL, NL>> \o Str(v) \o <<NL, NL>>
    ELSE <<Txt("=== "), Upper(k), Txt(" ==="), NL>> \o Str(v) \o <<NL, NL>>

\* the header lines of the file
Header(fmt) ==
    IF fmt = "md" THEN <<Txt("# ReconFTW-AI Analysis (Gemini)"), NL, NL, Txt("metadata"), NL, NL>>
    ELSE <<Txt("ReconFTW-AI Analysis"), NL, Txt("metadata"), NL, Txt("===="), NL, NL>>

RECURSIVE Sections_of(_, _)
\* for category, interpretation in results.items(): f.write(...)
Sections_of(fmt, d) ==
    IF d = <<>> THEN <<>>
    ELSE Section(fmt, d[1][1], d[1][2]) \o Sections_of(fmt, Tail(d))

\* datetime.now().strftime("%Y%m%d_%H%M%S"): the time of the clock, cut to the second
timestamp(t) == t \div TicksPerSecond

\* "md" if output_format == "md" else "txt"
extension(output_format) == IF output_format = "md" THEN "md" ELSE "txt"

\* f"reconftw_analysis_{report_type}_{timestamp}.{extension}" in output_dir
output_file_path(report_type, t, output_format) ==
    <<"reconftw_analysis", report_type, timestamp(t), extension(output_format)>>

\* with open(output_file, "w") as f: f.write(...) -- the file is created or truncated
WriteFile(d, path, body) == Put(d, path, body)

\* one call of save_results on the output directory
Save(rs, output_format, report_type) ==
    LET path == output_file_path(report_type, clock, output_format)
        body == Header(output_format) \o Sections_of(output_format, rs)
    IN  /\ disk' = WriteFile(disk, path, body)
        /\ saves' = Append(saves, [report_type |-> report_type, format |-> output_format,
                                   path |-> path, body |-> body])
        /\ output_file' = [written |-> TRUE, format |-> output_format, body |-> body]

save_results ==
    /\ pc = "done"
    /\ \E fmt \in OUTPUT_FORMATS : Save(results, fmt, DEFAULT_REPORT_TYPE)
    /\ pc' = "saved"
    /\ UNCHANGED <<inputs, exitStatus, base_prompts, readTask, raw_data_per_category,
                   analyzeTask, taskData, future, results, all_data, calls, prompts, served, runs>>

----------------------------------------------------------------------------
(* The run *)

Next ==
    \/ load_prompts
    \/ get_gemini_client
    \/ SubmitReads
    \/ \E c \in CategorySet : RunRead(c)
    \/ \E c \in CategorySet : CollectRead(c)
    \/ SubmitAnalyze
    \/ \E c \in CategorySet : StartAnalyze(c)
    \/ \E c \in CategorySet : ServiceReturn(c)
    \/ \E c \in CategorySet : CollectAnalyze(c)
    \/ Unwind
    \/ StartOverview
    \/ OverviewReturn
    \/ save_results

Spec == Init /\ [][Next]_vars

----------------------------------------------------------------------------
(* read_files on its own *)

FileNames == <<"a.txt", "b.bin", "c.log", "d.json">>

\* what a file can hold: nothing, text, text in whitespace, whitespace only,
\* text with the marker "[Error]" in it
Contents ==
    {<<>>, <<Txt("x")>>, <<SP, Txt("x"), NL>>, <<NL>>, <<ERR, Txt("x")>>}

\* what glob can yield under one name: a directory, a file that fails to
\* read, a file that reads
EntriesOf(n) ==
    {Entry(n, "dir", TRUE, <<>>), Entry(n, "file", FALSE, <<>>)}
    \cup {Entry(n, "file", TRUE, t) : t \in Contents}

\* the listings of at most MaxFiles paths, pairwise different, in any order
Listings ==
    UNION { { l \in [1..n -> UNION {EntriesOf(FileNames[i]) : i \in 1..MaxFiles}] :
                \A i, j \in 1..n : i # j => l[i].name # l[j].name }
            : n \in 0..MaxFiles }

ReadInputs ==
    {[category |-> c, dir |-> d] :
        c \in CategorySet, d \in {AbsentDir} \cup {Dir(TRUE, l) : l \in Listings}}

InitRead ==
    /\ dirs = AllAbsentDirs
    /\ promptsFile = PromptsFile(TRUE, TRUE, FullCatalog)
    /\ apiKey = TRUE
    /\ Idle
    /\ fnIn \in ReadInputs
    /\ fnOut = NoFuture
    /\ fnLog = <<>>

CallRead ==
    /\ fnOut = NoFuture
    /\ fnOut' = read_files(fnIn.category, fnIn.dir)
    /\ UNCHANGED <<promptsFile, apiKey, dirs, clock, outdir, fnIn, fnLog, pc, exitStatus,
                   base_prompts, readTask,
                   raw_data_per_category, analyzeTask, taskData, future, results,
                   all_data, calls, prompts, served, runs, output_file>>

NextRead == CallRead

SpecRead == InitRead /\ [][NextRead]_vars

----------------------------------------------------------------------------
(* Properties *)

Returned == pc \in {"done", "saved"}

TaskEnded(c) == analyzeTask[c] \in {"done", "recorded"}

IsErrorText(v) == v.kind = "text" /\ v.val # <<>> /\ Head(v.val) = ERR

\* data that is as a whole one "[Error] ..." sentinel line
IsErrorSentinel(data) ==
    /\ Len(data) = 2
    /\ data[1] = ERR
    /\ data[2][1] \in {"does not exist", "no valid data", "failed to process"}

\* C1: analyze_reconftw_results never raises, and what it returns has exactly
\* |CATEGORIES| + 1 sections: one per category and "overview".
OrchestratorNeverRaises ==
    /\ pc \notin {"unwind", "raised"}
    /\ Returned => /\ Len(results) = Len(CATEGORIES) + 1
                   /\ {results[i][1] : i \in 1..Len(results)} = Sections

\* C2: process_category never lets a failure out: every finished call, of a
\* category or of the overview, has produced a text, and after a failure of
\* the service that text is the "[Error]" sentinel with the category name and
\* the reason.
AnalyzeAlwaysReturnsText ==
    /\ \A c \in CategorySet :
          TaskEnded(c) =>
             /\ future[c].kind = "text"
             /\ served[c] \in {"none", "raise"} =>
                   /\ IsErrorText(future[c])
                   /\ future[c].val[2][1] = "failed to process"
                   /\ future[c].val[2][2] = c
    /\ pc # "raised"
    /\ HasKey(results, "overview") => Get(results, "overview").kind = "text"

\* C3: process_category returns without a service call exactly when its data
\* is empty or is an error sentinel; on every other data, data with an inline
\* "[Error] Failed to read" block included, it calls the service exactly once,
\* with the template filled in.
\* (Stated of the calls whose template can be filled in.)
ShortCircuitOnlyOnEmptyOrSentinel ==
    \A c \in CategorySet :
       (TaskEnded(c) /\ future[c].kind # "raise") =>
          IF taskData[c] = <<>> \/ IsErrorSentinel(taskData[c])
          THEN calls[c] = 0 /\ IsErrorText(future[c])
          ELSE /\ calls[c] = 1
               /\ prompts[c] = Substitute(prompt_template(base_prompts, c).val, taskData[c])

\* C4: for a category whose directory is absent, read_files returns (it does
\* not raise) a text containing "does not exist", and process_category then
\* returns an error sentinel without a single call of the service.
AbsentDirectoryNeverReachesService ==
    \A c \in CategorySet :
       ~dirs[c].exists =>
          /\ readTask[c] \in {"done", "recorded"} => read_files(c, dirs[c]).kind = "text"
          /\ HasKey(raw_data_per_category, c) =>
                Contains(Get(raw_data_per_category, c), DoesNotExist(c))
          /\ calls[c] = 0
          /\ analyzeTask[c] # "calling"
          /\ TaskEnded(c) => IsErrorText(future[c])

\* an absent category went through ingestion and analysis
AbsentDirectoryAnalyzed ==
    \E c \in CategorySet : ~dirs[c].exists /\ analyzeTask[c] = "recorded" /\ runs[c] = 1

\* C5: on subdomains/a.txt alone, the three absent categories have "does not
\* exist" raw data and error results without a service call, subdomains and
\* overview make one service call each, two in the run, and the report has
\* five sections.
EndToEndScenarioCalls ==
    (dirs = EndToEndDirs /\ Returned) =>
       /\ \A c \in CategorySet \ {"subdomains"} :
             /\ Contains(Get(raw_data_per_category, c), DoesNotExist(c))
             /\ IsErrorText(Get(results, c))
             /\ calls[c] = 0
       /\ calls["subdomains"] = 1
       /\ calls["overview"] = 1
       /\ Len(results) = 5

\* every category's read_files has ended and its data is in raw_data_per_category
AllIngested ==
    \A d \in CategorySet :
       /\ readTask[d] = "recorded"
       /\ HasKey(raw_data_per_category, d)
       /\ Get(raw_data_per_category, d) = read_files(d, dirs[d]).val

\* C6: no process_category task exists, and no service call has been issued,
\* before every category's read_files has ended and its data is recorded.
AnalysisWaitsForAllIngestion ==
    (\/ \E c \in CategorySet : analyzeTask[c] # "idle"
     \/ \E s \in Sections : calls[s] > 0 \/ runs[s] > 0) => AllIngested

\* a category's service call is in flight
AnalysisCallInFlight ==
    \E c \in CategorySet : analyzeTask[c] = "calling" /\ calls[c] = 1

\* C7: the overview call of process_category starts only after every
\* category's task has ended and its outcome is in results; it starts at most
\* once, and exactly once in a run that returns.
SynthesisWaitsForAllAnalysis ==
    /\ (runs["overview"] > 0 \/ calls["overview"] > 0 \/ HasKey(results, "overview")
        \/ pc \in {"synth", "done", "saved"}) =>
          \A c \in CategorySet : /\ analyzeTask[c] = "recorded"
                                 /\ HasKey(results, c)
                                 /\ Get(results, c) = future[c]
    /\ runs["overview"] <= 1
    /\ Returned => runs["overview"] = 1

\* the overview's service call is in flight
SynthesisCallInFlight == pc = "synth" /\ calls["overview"] = 1

\* C8: the data of the overview call is the categories' raw data, each under
\* its uppercased name, joined by a blank line: each category once, nothing
\* of the results in it, whatever the service answered to the categories;
\* and the prompt of the overview's service call is the template filled with it.
SynthesisInputIsLabeledRawData ==
    runs["overview"] > 0 =>
       LET order == Keys(raw_data_per_category)
       IN  /\ Len(order) = Len(CATEGORIES)
           /\ {order[i] : i \in 1..Len(order)} = CategorySet
           /\ all_data =
                 Join(<<NL, NL>>,
                      [i \in 1..Len(order) |->
                          <<Upper(order[i]), Txt(":"), NL>>
                             \o read_files(order[i], dirs[order[i]]).val])
           /\ \A i \in 1..Len(all_data) :
                 /\ all_data[i][1] \notin {"no valid data", "failed to process"}
                 /\ all_data[i] \notin {ResponseText[j] : j \in 1..Len(ResponseText)}
           /\ calls["overview"] > 0 =>
                 prompts["overview"] =
                    Substitute(prompt_template(base_prompts, "overview").val, all_data)

\* the overview's service call was issued in a run where a category's call
\* failed and another's succeeded
SynthesisAfterFailedCategory ==
    /\ calls["overview"] = 1
    /\ \E c, d \in CategorySet : served[c] = "raise" /\ served[d] = "text"

IsUpper(t) == t[1] = "upper"

\* the names of the sections of a report body, in the order written
SectionOrder(body) ==
    [i \in 1..Len(SelectSeq(body, IsUpper)) |-> SelectSeq(body, IsUpper)[i][2]]

\* C9: the sections of the written report are in the declared category order
\* with overview last, whatever the order in which the phase-2 tasks ended.
ReportSectionsInDeclaredOrder ==
    output_file.written => SectionOrder(output_file.body) = CATEGORIES \o <<"overview">>

FilesOf(d) == {d.listing[i] : i \in {j \in 1..Len(d.listing) : d.listing[j].kind = "file"}}

\* the block of a readable file: its header, then a newline and its stripped
\* content (the end of the output excepted, where trailing whitespace is cut)
HasFileBlock(out, c, e) ==
    /\ Count(out, Hdr(c, e.name)) = 1
    /\ \E i \in 1..Len(out) :
          /\ out[i] = Hdr(c, e.name)
          /\ Strip(e.content) # <<>> =>
                /\ i + 1 + Len(Strip(e.content)) <= Len(out)
                /\ out[i + 1] = NL
                /\ SubSeq(out, i + 2, i + 1 + Len(Strip(e.content))) = Strip(e.content)

\* the block of an unreadable file: "[Error]" and " Failed to read <path>: ..."
HasErrorBlock(out, c, e) ==
    /\ Count(out, FailedToRead(c, e.name)) = 1
    /\ \E i \in 2..Len(out) : out[i] = FailedToRead(c, e.name) /\ out[i - 1] = ERR

\* C10: on an existing directory read_files does not raise, whatever files
\* fail to read; its output is not empty and has one "--- path ---" block
\* with the content of every readable file and exactly one "[Error] Failed to
\* read" block per unreadable file.
ReadSurvivesUnreadableFiles ==
    (fnOut # NoFuture /\ fnIn.dir.exists) =>
       /\ fnOut.kind = "text"
       /\ fnOut.val # <<>>
       /\ \A e \in FilesOf(fnIn.dir) :
             IF e.readable THEN HasFileBlock(fnOut.val, fnIn.category, e)
             ELSE HasErrorBlock(fnOut.val, fnIn.category, e)
       /\ Cardinality({i \in 1..Len(fnOut.val) : fnOut.val[i][1] = "failed"})
             = Cardinality({e \in FilesOf(fnIn.dir) : ~e.readable})
       /\ Cardinality({i \in 1..Len(fnOut.val) : fnOut.val[i][1] = "hdr"})
             = Cardinality({e \in FilesOf(fnIn.dir) : e.readable})

\* read_files has returned on a directory with a readable and an unreadable file
ReadMixedDirectory ==
    /\ fnOut # NoFuture
    /\ fnIn.dir.exists
    /\ \E e, f \in FilesOf(fnIn.dir) : e.readable /\ ~f.readable

\* no read_files, no process_category, no service call, no report write
NoPipelineWork ==
    /\ \A c \in CategorySet : readTask[c] = "idle" /\ analyzeTask[c] = "idle"
    /\ raw_data_per_category = <<>> /\ results = <<>>
    /\ \A s \in Sections : runs[s] = 0 /\ calls[s] = 0
    /\ ~output_file.written

\* C11: with the prompts file missing or no valid JSON, or with no
\* GOOGLE_API_KEY, the process goes from initialization to sys.exit with a
\* status other than 0 and no pipeline work is ever done: the first stops it
\* in load_prompts, the second in get_gemini_client at the latest.
StartupFailureStopsBeforePipeline ==
    /\ ~(promptsFile.found /\ promptsFile.json) =>
          pc \in {"load", "exited"} /\ NoPipelineWork
    /\ ~apiKey => pc \in {"load", "client", "exited"} /\ NoPipelineWork
    /\ pc = "exited" => exitStatus # 0 /\ NoPipelineWork
    /\ pc # "exited" => exitStatus = 0

\* the process has exited for the missing key, the catalog being loaded
ExitedForMissingKey ==
    /\ pc = "exited" /\ exitStatus = 1
    /\ ~apiKey /\ promptsFile.found /\ promptsFile.json


-----------------------------------------------------------------------------
(* save_results called run after run on one output directory *)

\* a returned report whose interpretations are all v
ReportOf(v) == [i \in 1..5 |-> <<(CATEGORIES \o <<"overview">>)[i], v>>]

\* the reports of two different runs
Reports == {ReportOf(Text(ResponseText)), ReportOf(Text(<<ERR, Txt(" Failed to process")>>))}

InitSave ==
    /\ Idle
    /\ promptsFile = PromptsFile(TRUE, TRUE, FullCatalog)
    /\ apiKey = TRUE
    /\ dirs = AllAbsentDirs
    /\ fnIn = [category |-> "osint", dir |-> AbsentDir]
    /\ fnOut = NoFuture
    /\ fnLog = <<>>

\* time passes between two runs
Tick ==
    /\ clock < MaxClock
    /\ clock' = clock + 1
    /\ UNCHANGED <<promptsFile, apiKey, dirs, outdir, fnIn, fnOut, fnLog, pc, exitStatus,
                   base_prompts, readTask, raw_data_per_category, analyzeTask, taskData,
                   future, results, all_data, calls, prompts, served, runs, output_file>>

\* a run reaches main's last line and saves its report
SaveRun ==
    /\ Len(saves) < MaxSaves
    /\ \E rs \in Reports, fmt \in OUTPUT_FORMATS, rt \in REPORT_TYPES : Save(rs, fmt, rt)
    /\ UNCHANGED <<inputs, pc, exitStatus, base_prompts, readTask, raw_data_per_category,
                   analyzeTask, taskData, future, results, all_data, calls, prompts,
                   served, runs>>

NextSave == Tick \/ SaveRun

SpecSave == InitSave /\ [][NextSave]_vars

\* the two runs i < j have the same report variant and format
SameVariant(i, j) ==
    /\ i < j
    /\ saves[i].report_type = saves[j].report_type
    /\ saves[i].format = saves[j].format

\* C12: every run's save leaves one more file in the output directory, and of any two
\* runs with the same report variant and format the later one writes to another path
\* and leaves the earlier one's file as it was written, also when both save within the
\* same clock second.
NoRunOverwritesPriorReport ==
    /\ Len(disk) = Len(saves)
    /\ \A i, j \in 1..Len(saves) :
          SameVariant(i, j) =>
             /\ saves[i].path # saves[j].path
             /\ HasKey(disk, saves[i].path)
             /\ Get(disk, saves[i].path) = saves[i].body


-----------------------------------------------------------------------------
(* read_files called again and again on one unchanged directory *)

\* the orders in which glob can yield the paths of a listing
Enumerations(l) ==
    {[i \in 1..Len(l) |-> l[p[i]]] : p \in Permutations(1..Len(l))}

InitWalk ==
    /\ promptsFile = PromptsFile(TRUE, TRUE, FullCatalog)
    /\ apiKey = TRUE
    /\ dirs = AllAbsentDirs
    /\ Idle
    /\ fnIn \in ReadInputs
    /\ fnOut = NoFuture
    /\ fnLog = <<>>

\* one more call: the tree is the same, glob yields its paths in some order
CallReadAgain ==
    /\ Len(fnLog) < MaxReads
    /\ \E l \in Enumerations(fnIn.dir.listing) :
          fnOut' = read_files(fnIn.category, Dir(fnIn.dir.exists, l))
    /\ fnLog' = Append(fnLog, fnOut')
    /\ UNCHANGED <<promptsFile, apiKey, dirs, clock, outdir, fnIn, pc, exitStatus,
                   base_prompts, readTask, raw_data_per_category, analyzeTask, taskData,
                   future, results, all_data, calls, prompts, served, runs, output_file>>

NextWalk == CallReadAgain

SpecWalk == InitWalk /\ [][NextWalk]_vars

\* C13: repeated calls of read_files on an unchanged directory tree with unchanged
\* file contents return the same text, whatever the order in which the walk of the
\* directory yields the files.
ReadIsDeterministic ==
    \A i, j \in 1..Len(fnLog) : fnLog[i] = fnLog[j]


-----------------------------------------------------------------------------
(* A run in which one category's service call may never return *)

\* the runs on two readable categories with every catalog, and the run on four
HangRuns ==
    { Run(TwoReadableDirs, PromptsFile(TRUE, TRUE, c), TRUE) : c \in PipelineCatalogs }
    \cup { Run(AllReadableDirs, PromptsFile(TRUE, TRUE, FullCatalog), TRUE) }

InitHang ==
    /\ Idle
    /\ \E r \in HangRuns : /\ dirs = r.dirs
                            /\ promptsFile = r.promptsFile
                            /\ apiKey = r.apiKey
    /\ fnIn = Dir(FALSE, <<>>)
    /\ fnOut = NoFuture
    /\ fnLog = <<>>

NextHang == Next \/ \E c \in CategorySet : ServiceHang(c)

\* the threads of the pool and the main thread are scheduled as long as they can run
SpecHang == InitHang /\ [][NextHang]_vars /\ WF_vars(NextHang)

\* the service call of category c never returns
Hung(c) == analyzeTask[c] = "hung"

\* the loop over the phase-2 futures is left
BarrierPassed ==
    \/ pc \in {"synth", "done", "saved", "raised"}
    \/ runs["overview"] > 0
    \/ calls["overview"] > 0

\* the task of category d has ended and its result is in results
SiblingRecorded(d) == analyzeTask[d] = "recorded" /\ HasKey(results, d)

\* C14: when one category's service call never returns, the process_category task of
\* every other category ends and its result is put into results, while the loop over
\* the phase-2 futures is never left: process_category is never called for the
\* overview and analyze_reconftw_results neither returns nor raises.
HangBlocksOnlyTheBarrier ==
    /\ [](\A c \in CategorySet : Hung(c) => ~BarrierPassed)
    /\ (\E c \in CategorySet : Hung(c))
          ~> (\A d \in CategorySet : Hung(d) \/ SiblingRecorded(d))


-----------------------------------------------------------------------------
(* Isolation of the categories *)

\* the catalog with the template of section s alone
OwnTemplate(bp, s) ==
    [bp EXCEPT !.entries = [t \in Sections |-> IF t = s THEN bp.entries[s] ELSE AbsentEntry]]

\* what process_category gives for category c from c's directory, c's template
\* and the service's answer to c's call
OwnResult(c) ==
    LET b == BeforeCall(OwnTemplate(promptsFile.value, c), c, read_files(c, dirs[c]).val)
    IN  IF b.step = "return" THEN b.res ELSE AfterCall(c, served[c])

\* s occurs in t as a run of consecutive tokens
IsInfix(s, t) == \E i \in 0..(Len(t) - Len(s)) : SubSeq(t, i + 1, i + Len(s)) = s

\* C15: the result of category c is what process_category gives for c's own raw data,
\* c's own template and the service's answer to c's own call, whatever was read or
\* answered for the other categories: that value is what c's task produces, what is
\* recorded under c, and what the report shows in c's section; a run that returns has
\* a result for every category.
CategoryResultFromOwnCategoryOnly ==
    \A c \in CategorySet :
       /\ TaskEnded(c) => future[c] = OwnResult(c)
       /\ HasKey(results, c) => TaskEnded(c) /\ Get(results, c) = future[c]
       /\ Returned => HasKey(results, c)
       /\ output_file.written =>
             IsInfix(Section(output_file.format, c, future[c]), output_file.body)

\* osint's answer is recorded in a run where the service failed for subdomains and
\* the directories of hosts and webs are missing
RecordedBesideFailures ==
    /\ dirs = TwoReadableDirs
    /\ HasKey(results, "osint") /\ Get(results, "osint") = Text(ResponseText)
    /\ served["subdomains"] = "raise"
    /\ HasKey(results, "subdomains") /\ IsErrorText(Get(results, "subdomains"))
    /\ output_file.written


-----------------------------------------------------------------------------
(* The two dicts of analyze_reconftw_results *)

\* from d to e no entry changes and at most one entry, under a new key, is added
Grows(d, e) ==
    /\ Len(e) \in {Len(d), Len(d) + 1}
    /\ SubSeq(e, 1, Len(d)) = d
    /\ Len(e) > Len(d) => ~HasKey(d, e[Len(e)][1])

\* the entry a step adds to raw_data_per_category is a category's own read_files value
RawEntryFromOwnTask(e) ==
    /\ e[1] \in CategorySet
    /\ readTask[e[1]] = "done"
    /\ e[2] = read_files(e[1], dirs[e[1]]).val

\* the entry a step adds to results is a category's own future, or the overview
\* once every category has its entry
ResultEntryFromOwnTask(e) ==
    IF e[1] = "overview"
    THEN \A c \in CategorySet : HasKey(results, c)
    ELSE /\ e[1] \in CategorySet
         /\ analyzeTask[e[1]] = "done"
         /\ e[2] = future[e[1]]
         /\ ~HasKey(results, "overview")

\* C16: in every run and interleaving each key of raw_data_per_category and of results
\* is assigned once, with the value of that category's own task, and no entry changes
\* afterwards; `overview` is assigned once, after the keys of all categories; a run
\* that returns has assigned every key.
ResultMapsAreWriteOnce ==
    /\ [][/\ Grows(raw_data_per_category, raw_data_per_category')
          /\ Grows(results, results')
          /\ raw_data_per_category' # raw_data_per_category =>
                RawEntryFromOwnTask(raw_data_per_category'[Len(raw_data_per_category')])
          /\ results' # results => ResultEntryFromOwnTask(results'[Len(results')])]_vars
    /\ [](Returned => /\ \A c \in CategorySet : HasKey(raw_data_per_category, c)
                      /\ \A s \in Sections : HasKey(results, s))

\* both dicts are complete, the overview assigned last
MapsComplete ==
    /\ Len(raw_data_per_category) = Len(CATEGORIES)
    /\ Len(results) = Len(CATEGORIES) + 1
    /\ results[Len(results)][1] = "overview"
    /\ \E c \in CategorySet : IsErrorText(Get(results, c))
    /\ \E c \in CategorySet : Get(results, c) = Text(ResponseText)


-----------------------------------------------------------------------------
(* The three kinds of text read_files returns *)

\* text that begins with the block of a file
BeginsWithBlock(out) ==
    /\ out # <<>>
    /\ \/ out[1][1] = "hdr"
       \/ Len(out) >= 2 /\ out[1] = ERR /\ out[2][1] = "failed"

\* C17: read_files never returns the empty string. It returns the "does not exist"
\* sentinel exactly when the directory is missing, the "No files found" sentinel
\* exactly when the directory exists and the walk yields no regular file, and in every
\* other case a non-empty text made of the blocks of the files.
ReadNeverReturnsEmpty ==
    fnOut # NoFuture =>
       /\ fnOut.kind = "text"
       /\ fnOut.val # <<>>
       /\ fnOut.val = <<ERR, DoesNotExist(fnIn.category)>> <=> ~fnIn.dir.exists
       /\ fnOut.val = <<INFO, NoFilesFound(fnIn.category)>>
             <=> (fnIn.dir.exists /\ FilesOf(fnIn.dir) = {})
       /\ (fnIn.dir.exists /\ FilesOf(fnIn.dir) # {}) =>
             /\ BeginsWithBlock(fnOut.val)
             /\ ~IsSpace(fnOut.val[Len(fnOut.val)])

\* read_files has returned on a directory that exists and holds only a subdirectory
ReadDirectoryWithoutFiles ==
    /\ fnOut # NoFuture
    /\ fnIn.dir.exists
    /\ fnIn.dir.listing # <<>>
    /\ FilesOf(fnIn.dir) = {}


-----------------------------------------------------------------------------
(* The overview of a run with a category in error *)

\* a category directory is missing or a file of one failed to read
IngestionError ==
    \E c \in CategorySet :
       \/ ~dirs[c].exists
       \/ \E e \in FilesOf(dirs[c]) : ~e.readable

\* C18: the service is called for the overview only if no category's raw data holds
\* "[Error]"; when a category directory is missing or a file failed to read, the
\* joined data given to the overview holds "[Error]", no service call is made for the
\* overview, and its section is "[Error] No valid data available for overview."
OverviewCallsOnlyOnCleanData ==
    /\ calls["overview"] > 0 =>
          \A c \in CategorySet : /\ HasKey(raw_data_per_category, c)
                                 /\ ~Contains(Get(raw_data_per_category, c), ERR)
    /\ IngestionError =>
          /\ calls["overview"] = 0
          /\ runs["overview"] > 0 => Contains(all_data, ERR)
          /\ HasKey(results, "overview") =>
                Get(results, "overview") = Text(<<ERR, NoValidData("overview")>>)

\* the run over a readable, a partly unreadable, an empty and a missing directory
\* has returned: the service was called for osint
OverviewOfRunWithErrors ==
    /\ pc = "done"
    /\ dirs = MixedDirs
    /\ calls["osint"] = 1
    /\ HasKey(results, "overview")
    /\ Contains(all_data, ERR)


-----------------------------------------------------------------------------
(* The overview's input and the order of the phase-1 futures *)

\* raw_data_per_category as it is when the futures are handed over in declared order
RawDataInDeclaredOrder ==
    [i \in 1..Len(CATEGORIES) |->
        <<CATEGORIES[i], read_files(CATEGORIES[i], dirs[CATEGORIES[i]]).val>>]

\* C19: the prompt sent to the service for the overview is the same for every order in
\* which the phase-1 read_files tasks complete. The run that hands the futures over in
\* declared order exists, so the one prompt all runs over the same files would share
\* is the one with the category blocks in declared order.
OverviewPromptSameForAllInterleavings ==
    calls["overview"] > 0 =>
       /\ all_data = AllData(RawDataInDeclaredOrder)
       /\ prompts["overview"] =
             Substitute(prompt_template(base_prompts, "overview").val,
                        AllData(RawDataInDeclaredOrder))


-----------------------------------------------------------------------------
(* Termination of analyze_reconftw_results *)

\* the run with every service call returning, its threads scheduled as long as they
\* can run
SpecFair == InitHang /\ [][Next]_vars /\ WF_vars(Next)

RECURSIVE CallsOf(_)
\* the service calls issued for the sections of the sequence
CallsOf(sections) ==
    IF sections = <<>> THEN 0 ELSE calls[Head(sections)] + CallsOf(Tail(sections))

\* C20: with the workers scheduled fairly and every file read and service call
\* returning, text or failure, analyze_reconftw_results once called returns; when it
\* has returned, every read_files task, then every process_category task, then the
\* overview have run, in that order; at no time have more than len(CATEGORIES) + 1
\* service calls been issued.
RunTerminatesThroughAllPhases ==
    /\ (pc = "submit_reads") ~> (pc = "done")
    /\ [](pc = "done" => /\ AllIngested
                         /\ Phase2Joined
                         /\ runs["overview"] = 1
                         /\ HasKey(results, "overview"))
    /\ [](runs["overview"] > 0 => AllIngested /\ Phase2Joined)
    /\ []((\E c \in CategorySet : runs[c] > 0) => AllIngested)
    /\ [](CallsOf(CATEGORIES \o <<"overview">>) <= Len(CATEGORIES) + 1)

====
